---- MODULE Spec2Model ----
(***************************************************************************)
(* The phase gate of spec-kit: orchestrator/hooks/lint_phase.sh (artifact  *)
(* validation, severity scan, mitigation lookup, Node and Rust validator   *)
(* chains, EXIT_CODE accumulation) run over a workspace of files, alone     *)
(* (Spec), several times in a row (SpecRerun), and after                    *)
(* orchestrator/plugins.runtime.sh under ci/run_phase_checks.sh            *)
(* (SpecChecks); and plugins.runtime.sh interrupted and run again          *)
(* (SpecRegen).                                                            *)
(*                                                                         *)
(* A file is a sequence of lines and a line is a sequence of characters,   *)
(* so that grep is computed on the text and not assumed.                   *)
(***************************************************************************)
EXTENDS Integers, Sequences, FiniteSets, TLC

VARIABLES
    fs,                 \* the workspace: the text of every file that exists
    pc,                 \* position of lint_phase.sh
    PHASE,              \* $1 of lint_phase.sh
    EXIT_CODE,          \* the accumulated EXIT_CODE of lint_phase.sh
    missing_artifacts,  \* the list printed under "Missing required plugin artifacts"
    gate_rc,            \* return status of validate_plugin_artifacts
    log,                \* messages of the artifact gate, in order
    node_failed,        \* history: a step of the Node chain failed
    rust_failed,        \* history: a step of the Rust chain failed
    exit_status,        \* status the process exited with (read when pc = "done")
    ran,                \* history: the validator steps executed in this run, in order
    last_failure,       \* history: the last non-zero status of a validator step, else 0
    retried,            \* history: a Node step's second runner ran after the first failed
    ORCHESTRATOR_PLUGIN_MODE,  \* the environment variable ("" when unset)
    inv_rc,             \* exit status of plugins.runtime.sh
    producers,          \* history: the run_* functions plugins.runtime.sh called
    ci_status,          \* exit status of ci/run_phase_checks.sh (read when pc = "ci_done")
    run,                \* number of the gate run in progress
    results,            \* history: phase, validator outcome and exit status of earlier runs
    regen               \* history: the tools of an interrupted plugins.runtime.sh run and
                        \* the reports a complete run leaves

\* what lint_phase.sh cannot touch: the state of its callers
outer == <<ORCHESTRATOR_PLUGIN_MODE, inv_rc, producers, ci_status, run, results, regen>>

vars == <<fs, pc, PHASE, EXIT_CODE, missing_artifacts, gate_rc, log,
          node_failed, rust_failed, exit_status, ran, last_failure, retried,
          ORCHESTRATOR_PLUGIN_MODE, inv_rc, producers, ci_status, run, results, regen>>

(***************************************************************************)
(* Bounds                                                                  *)
(***************************************************************************)
\* at most this many files exist in the workspace when the run starts
MaxFiles == 3

(***************************************************************************)
(* Text                                                                    *)
(***************************************************************************)
UpperCase ==
    <<"A", "B", "C", "D", "E", "F", "G", "H", "I", "J", "K", "L", "M", "N", "O", "P", "Q", "R", "S", "T", "U", "V", "W", "X", "Y", "Z">>
LowerCase ==
    <<"a", "b", "c", "d", "e", "f", "g", "h", "i", "j", "k", "l", "m", "n", "o", "p", "q", "r", "s", "t", "u", "v", "w", "x", "y", "z">>

\* case folding of one character (grep -i)
Fold(c) ==
    IF \E i \in 1..26 : UpperCase[i] = c
    THEN LowerCase[CHOOSE i \in 1..26 : UpperCase[i] = c]
    ELSE c

FoldLine(line) == [i \in 1..Len(line) |-> Fold(line[i])]

\* pat occurs in line starting at position i
OccursAt(pat, line, i) ==
    /\ i >= 1
    /\ i + Len(pat) - 1 <= Len(line)
    /\ \A k \in 1..Len(pat) : line[i + k - 1] = pat[k]

\* the fixed string pat occurs somewhere in line
Occurs(pat, line) == \E i \in 1..Len(line) : OccursAt(pat, line, i)

\* the regular expression  a.*b  matches line: a, then anything, then b
OccursThen(a, b, line) ==
    \E i \in 1..Len(line) :
        /\ OccursAt(a, line, i)
        /\ \E j \in (i + Len(a))..Len(line) : OccursAt(b, line, j)

P_Severity ==
    <<"s", "e", "v", "e", "r", "i", "t", "y">>
P_Critical ==
    <<"c", "r", "i", "t", "i", "c", "a", "l">>
P_High ==
    <<"h", "i", "g", "h">>
P_SecurityMitigations ==
    <<"S", "e", "c", "u", "r", "i", "t", "y", " ", "M", "i", "t", "i", "g", "a", "t", "i", "o", "n", "s">>
P_SecurityFindingWaiver ==
    <<"S", "e", "c", "u", "r", "i", "t", "y", " ", "F", "i", "n", "d", "i", "n", "g", " ", "W", "a", "i", "v", "e", "r">>

\* the scan with the severity level left out of the pattern: grep -qi "severity"
GrepSeverity_AnyLevel(text) ==
    \E n \in 1..Len(text) : Occurs(P_Severity, FoldLine(text[n]))

\* grep -qi "severity.*critical\|severity.*high" FILE
GrepSeverity(text) ==
    \E n \in 1..Len(text) :
        \/ OccursThen(P_Severity, P_Critical, FoldLine(text[n]))
        \/ OccursThen(P_Severity, P_High, FoldLine(text[n]))

\* grep -q "Security Mitigations" FILE
GrepMitigations(text) ==
    \E n \in 1..Len(text) : Occurs(P_SecurityMitigations, text[n])

\* grep -q "Security Finding Waiver" FILE
GrepWaiver(text) ==
    \E n \in 1..Len(text) : Occurs(P_SecurityFindingWaiver, text[n])

(***************************************************************************)
(* The workspace                                                           *)
(***************************************************************************)
SpecFindings      == "reports/security/spec-findings.md"
PlanScan          == "reports/security/plan-scan.md"
TasksUnitHelp     == "reports/tests/tasks-unit-help.md"
ImplementScan     == "reports/security/implement-scan.md"
AnalyzeDeltas     == "reports/security/analyze-deltas.md"
AnalyzeCompliance == "reports/compliance/analyze-compliance.md"
PlanMd            == "plans/plan.md"
DecisionsMd       == "DECISIONS.md"
RequirementsTxt   == "requirements.txt"
PyprojectToml     == "pyproject.toml"
PackageJson       == "package.json"
CargoToml         == "Cargo.toml"

Reports == {SpecFindings, PlanScan, TasksUnitHelp, ImplementScan,
            AnalyzeDeltas, AnalyzeCompliance}
Manifests == {RequirementsTxt, PyprojectToml, PackageJson, CargoToml}
Paths == Reports \cup {PlanMd, DecisionsMd} \cup Manifests

\* [[ -f path ]]
IsFile(f, path) == path \in DOMAIN f

L_SeverityHigh ==
    <<"S", "e", "v", "e", "r", "i", "t", "y", ":", " ", "H", "I", "G", "H">>
L_SeverityCriticalLower ==
    <<"-", " ", "s", "e", "v", "e", "r", "i", "t", "y", ":", " ", "c", "r", "i", "t", "i", "c", "a", "l", " ", "(", "C", "V", "E", ")">>
L_ProseCritical ==
    <<"C", "R", "I", "T", "I", "C", "A", "L", " ", "p", "a", "t", "h", ",", " ", "h", "i", "g", "h", "l", "y", " ", "u", "s", "e", "d">>
L_HighSeverity ==
    <<"H", "I", "G", "H", " ", "s", "e", "v", "e", "r", "i", "t", "y">>
L_SeverityLow ==
    <<"S", "e", "v", "e", "r", "i", "t", "y", ":", " ", "L", "O", "W">>
L_SeverityMedium ==
    <<"s", "e", "v", "e", "r", "i", "t", "y", ":", " ", "m", "e", "d", "i", "u", "m">>
L_Title ==
    <<"#", " ", "S", "c", "a", "n">>
L_MitigationHeader ==
    <<"#", "#", " ", "S", "e", "c", "u", "r", "i", "t", "y", " ", "M", "i", "t", "i", "g", "a", "t", "i", "o", "n", "s">>
L_OwnerTimeline ==
    <<"-", " ", "O", "w", "n", "e", "r", ":", " ", "s", "e", "c", ",", " ", "T", "i", "m", "e", "l", "i", "n", "e", ":", " ", "Q", "3">>
L_PlanTitle ==
    <<"#", " ", "P", "l", "a", "n">>
L_WaiverHeader ==
    <<"#", "#", " ", "A", "D", "R", "-", "0", "0", "1", ":", " ", "S", "e", "c", "u", "r", "i", "t", "y", " ", "F", "i", "n", "d", "i", "n", "g", " ", "W", "a", "i", "v", "e", "r", " ", "-", " ", "F", "1">>
L_DecisionsTitle ==
    <<"#", " ", "D", "e", "c", "i", "s", "i", "o", "n", "s">>

\* a report with a "Severity: HIGH" line
T_High == <<L_Title, L_SeverityHigh>>
\* a report with a lower-case "severity: critical" inside a longer line
T_Critical == <<L_SeverityCriticalLower>>
\* a report naming CRITICAL and HIGH only on lines where no "severity" precedes them
T_Prose == <<L_SeverityLow, L_ProseCritical, L_HighSeverity>>
\* a report whose only severity markers are MEDIUM and LOW
T_MediumLow == <<L_Title, L_SeverityMedium, L_SeverityLow>>

ReportTexts == {T_High, T_Critical, T_Prose, T_MediumLow}

\* plans/plan.md: the section header alone, header with owner and timeline,
\* owner and timeline with no header
T_PlanHeaderOnly == <<L_PlanTitle, L_MitigationHeader>>
T_PlanFull       == <<L_PlanTitle, L_MitigationHeader, L_OwnerTimeline>>
T_PlanOwnerOnly  == <<L_PlanTitle, L_OwnerTimeline>>

PlanTexts == {T_PlanHeaderOnly, T_PlanFull, T_PlanOwnerOnly}

\* DECISIONS.md: with a waiver ADR, without one
T_Waiver      == <<L_DecisionsTitle, L_WaiverHeader>>
T_NoDecisions == <<L_DecisionsTitle>>

DecisionsTexts == {T_Waiver, T_NoDecisions}

\* a manifest is only probed for existence
T_Manifest == <<>>

TextsOf(path) ==
    IF path \in Reports THEN ReportTexts
    ELSE IF path = PlanMd THEN PlanTexts
    ELSE IF path = DecisionsMd THEN DecisionsTexts
    ELSE {T_Manifest}

\* the workspaces a run may start in: any files, each with one of its texts
Workspaces ==
    UNION { { c \in [S -> ReportTexts \cup PlanTexts \cup DecisionsTexts \cup {T_Manifest}] :
                \A p \in S : c[p] \in TextsOf(p) } :
            S \in { T \in SUBSET Paths : Cardinality(T) <= MaxFiles } }

(***************************************************************************)
(* lint_phase.sh                                                           *)
(***************************************************************************)
GatedPhases == {"spec", "plan", "tasks", "implement", "analyze"}
\* the arguments tried: the lifecycle's phases and a name that is none of them
PhaseArgs == GatedPhases \cup {"review", "deploy", "bogus"}

AppendIf(cond, seq, x) == IF cond THEN Append(seq, x) ELSE seq

\* the case statement with && between the two Python manifests
MissingArtifacts_BothManifests(phase, f) ==
    CASE phase = "spec" ->
           AppendIf(~IsFile(f, SpecFindings), <<>>, SpecFindings)
      [] phase = "plan" ->
           AppendIf(~IsFile(f, PlanScan), <<>>, PlanScan)
      [] phase = "tasks" ->
           IF IsFile(f, RequirementsTxt) /\ IsFile(f, PyprojectToml)
           THEN AppendIf(~IsFile(f, TasksUnitHelp), <<>>, TasksUnitHelp)
           ELSE <<>>
      [] phase = "implement" ->
           AppendIf(~IsFile(f, ImplementScan), <<>>, ImplementScan)
      [] phase = "analyze" ->
           AppendIf(~IsFile(f, AnalyzeCompliance),
                    AppendIf(~IsFile(f, AnalyzeDeltas), <<>>, AnalyzeDeltas),
                    AnalyzeCompliance)
      [] OTHER -> <<>>

\* the case statement stopping at the first missing artifact of analyze
MissingArtifacts_FirstOnly(phase, f) ==
    CASE phase = "spec" ->
           AppendIf(~IsFile(f, SpecFindings), <<>>, SpecFindings)
      [] phase = "plan" ->
           AppendIf(~IsFile(f, PlanScan), <<>>, PlanScan)
      [] phase = "tasks" ->
           IF IsFile(f, RequirementsTxt) \/ IsFile(f, PyprojectToml)
           THEN AppendIf(~IsFile(f, TasksUnitHelp), <<>>, TasksUnitHelp)
           ELSE <<>>
      [] phase = "implement" ->
           AppendIf(~IsFile(f, ImplementScan), <<>>, ImplementScan)
      [] phase = "analyze" ->
           IF ~IsFile(f, AnalyzeDeltas) THEN <<AnalyzeDeltas>>
           ELSE AppendIf(~IsFile(f, AnalyzeCompliance), <<>>, AnalyzeCompliance)
      [] OTHER -> <<>>

\* the case statement of validate_plugin_artifacts: missing_artifacts+=(...)
MissingArtifacts(phase, f) ==
    CASE phase = "spec" ->
           AppendIf(~IsFile(f, SpecFindings), <<>>, SpecFindings)
      [] phase = "plan" ->
           AppendIf(~IsFile(f, PlanScan), <<>>, PlanScan)
      [] phase = "tasks" ->
           IF IsFile(f, RequirementsTxt) \/ IsFile(f, PyprojectToml)
           THEN AppendIf(~IsFile(f, TasksUnitHelp), <<>>, TasksUnitHelp)
           ELSE <<>>
      [] phase = "implement" ->
           AppendIf(~IsFile(f, ImplementScan), <<>>, ImplementScan)
      [] phase = "analyze" ->
           AppendIf(~IsFile(f, AnalyzeCompliance),
                    AppendIf(~IsFile(f, AnalyzeDeltas), <<>>, AnalyzeDeltas),
                    AnalyzeCompliance)
      [] OTHER -> <<>>

\* report_files with the analyze case left out
ReportFiles_NoAnalyze(phase) ==
    CASE phase = "spec"      -> <<SpecFindings>>
      [] phase = "plan"      -> <<PlanScan>>
      [] phase = "implement" -> <<ImplementScan>>
      [] OTHER               -> <<>>

\* report_files of check_security_findings
ReportFiles(phase) ==
    CASE phase = "spec"      -> <<SpecFindings>>
      [] phase = "plan"      -> <<PlanScan>>
      [] phase = "implement" -> <<ImplementScan>>
      [] phase = "analyze"   -> <<AnalyzeDeltas>>
      [] OTHER               -> <<>>

\* the report holds a marker the scan recognises
FindingsDetected(f, report) == IsFile(f, report) /\ GrepSeverity(f[report])

MitigationFound(f) == IsFile(f, PlanMd) /\ GrepMitigations(f[PlanMd])

\* the waiver lookup nested under the plans/plan.md test
WaiverFound_NeedsPlan(f) ==
    IsFile(f, PlanMd) /\ IsFile(f, DecisionsMd) /\ GrepWaiver(f[DecisionsMd])

WaiverFound(f) == IsFile(f, DecisionsMd) /\ GrepWaiver(f[DecisionsMd])

\* what check_security_findings prints for one report
FindingLog(f, report) ==
    IF ~FindingsDetected(f, report) THEN <<>>
    ELSE IF MitigationFound(f) THEN <<"findings detected", "mitigation plan found">>
    ELSE IF WaiverFound(f) THEN <<"findings detected", "security waiver found">>
    ELSE <<"findings detected", "no mitigation plan or waiver found">>

\* the reports of the phase with a finding that neither document covers
Unmitigated(phase, f) ==
    { n \in 1..Len(ReportFiles(phase)) :
        /\ FindingsDetected(f, ReportFiles(phase)[n])
        /\ ~MitigationFound(f)
        /\ ~WaiverFound(f) }

\* check_security_findings: 2 at the first report with an uncovered finding.
\* For phase tasks report_files is empty and the loop body never runs (bash 4.4
\* and later expand an empty array under set -u without an error).
CheckSecurityFindings(phase, f) ==
    IF Unmitigated(phase, f) # {} THEN 2 ELSE 0

CheckSecurityLog(phase, f) ==
    IF Len(ReportFiles(phase)) = 0 THEN <<>>
    ELSE FindingLog(f, ReportFiles(phase)[1])

\* validate_plugin_artifacts: its return status
ValidatePluginArtifacts(phase, f) ==
    IF Len(MissingArtifacts(phase, f)) > 0 THEN 1
    ELSE CheckSecurityFindings(phase, f)

ValidateLog(phase, f) ==
    IF Len(MissingArtifacts(phase, f)) > 0 THEN <<"missing required plugin artifacts">>
    ELSE CheckSecurityLog(phase, f) \o
         (IF CheckSecurityFindings(phase, f) = 0 THEN <<"plugin artifacts validated">> ELSE <<>>)

\* exit statuses a tool is tried with: success, failure statuses of the tools
\* (1, 2, cargo's 101) and the shell's 127 for a command that is not installed
ToolExits == {0, 1, 2, 101, 127}

\* X; EXIT_CODE=$?  (the status stored whether or not X failed)
OrAssign_Overwrite(status, code) == status

\* X || EXIT_CODE=$?
OrAssign(status, code) == IF status = 0 THEN code ELSE status

\* pnpm X || npm X: the status of the list
OrList(first, second) == IF first = 0 THEN 0 ELSE second

\* the Rust block an elif of the Node block
AfterNode_Elif(f, phase) ==
    IF IsFile(f, CargoToml) /\ phase = "implement" /\ ~IsFile(f, PackageJson)
    THEN "cargo_fmt" ELSE "done"

\* where lint_phase.sh goes after the Node block: the Rust chain runs when
\* Cargo.toml exists and the phase is implement, otherwise the script ends
AfterNode(f, phase) ==
    IF IsFile(f, CargoToml) /\ phase = "implement" THEN "cargo_fmt" ELSE "done"

\* the Node block entered whatever the phase
AfterArtifacts_AnyPhase(f, phase) ==
    IF IsFile(f, PackageJson) THEN "node_lint" ELSE AfterNode(f, phase)

\* where it goes after artifact validation: the Node chain runs when
\* package.json exists and the phase is implement
AfterArtifacts(f, phase) ==
    IF IsFile(f, PackageJson) /\ phase = "implement" THEN "node_lint"
    ELSE AfterNode(f, phase)

\* if [[ $EXIT_CODE -ne 0 ]]; then exit $EXIT_CODE; fi; exit 0
ExitStatus(code) == IF code # 0 THEN code ELSE 0

Init ==
    /\ fs \in Workspaces
    /\ pc = "idle"
    /\ PHASE = "implement"
    /\ EXIT_CODE = 0
    /\ missing_artifacts = <<>>
    /\ gate_rc = 0
    /\ log = <<>>
    /\ node_failed = FALSE
    /\ rust_failed = FALSE
    /\ exit_status = 0
    /\ ran = <<>>
    /\ last_failure = 0
    /\ retried = FALSE
    /\ ORCHESTRATOR_PLUGIN_MODE = ""
    /\ inv_rc = 0
    /\ producers = <<>>
    /\ ci_status = 0
    /\ run = 1
    /\ results = {}
    /\ regen = [tools |-> <<>>, reports |-> <<>>]

\* the script reaches its last lines when the next position is "done"
Finish(next, code) ==
    /\ pc' = next
    /\ exit_status' = IF next = "done" THEN ExitStatus(code) ELSE exit_status

\* EXIT_CODE="${EXIT_CODE:-0}": a value left in the environment is kept
InitialExitCode_Inherited(inherited) == inherited

\* EXIT_CODE=0
InitialExitCode(inherited) == 0

\* PHASE="${1:-implement}"; EXIT_CODE=0
Start ==
    /\ pc = "idle"
    /\ \E arg \in PhaseArgs : PHASE' = arg
    /\ EXIT_CODE' = InitialExitCode(EXIT_CODE)
    /\ pc' = "artifacts"
    /\ ran' = <<>>
    /\ last_failure' = 0
    /\ retried' = FALSE
    /\ UNCHANGED <<fs, missing_artifacts, gate_rc, log, node_failed, rust_failed, exit_status>>
    /\ UNCHANGED outer

\* validate_plugin_artifacts creating, empty, every artifact it finds missing
ArtifactValidation_Touching ==
    /\ pc = "artifacts"
    /\ PHASE \in GatedPhases
    /\ missing_artifacts' = MissingArtifacts(PHASE, fs)
    /\ gate_rc' = ValidatePluginArtifacts(PHASE, fs)
    /\ log' = ValidateLog(PHASE, fs)
    /\ EXIT_CODE' = OrAssign(ValidatePluginArtifacts(PHASE, fs), EXIT_CODE)
    /\ fs' = [p \in DOMAIN fs \cup { MissingArtifacts(PHASE, fs)[i] :
                                        i \in 1..Len(MissingArtifacts(PHASE, fs)) } |->
                IF p \in DOMAIN fs THEN fs[p] ELSE <<>>]
    /\ Finish(AfterArtifacts(fs, PHASE), EXIT_CODE')
    /\ UNCHANGED <<PHASE, node_failed, rust_failed, ran, last_failure, retried>>
    /\ UNCHANGED outer

\* validate_plugin_artifacts "$PHASE" || EXIT_CODE=$?
ArtifactValidation ==
    /\ pc = "artifacts"
    /\ PHASE \in GatedPhases
    /\ missing_artifacts' = MissingArtifacts(PHASE, fs)
    /\ gate_rc' = ValidatePluginArtifacts(PHASE, fs)
    /\ log' = ValidateLog(PHASE, fs)
    /\ EXIT_CODE' = OrAssign(ValidatePluginArtifacts(PHASE, fs), EXIT_CODE)
    /\ Finish(AfterArtifacts(fs, PHASE), EXIT_CODE')
    /\ UNCHANGED <<fs, PHASE, node_failed, rust_failed, ran, last_failure, retried>>
    /\ UNCHANGED outer

\* the phase is none of spec|plan|tasks|implement|analyze: no artifact validation
SkipArtifactValidation ==
    /\ pc = "artifacts"
    /\ PHASE \notin GatedPhases
    /\ Finish(AfterArtifacts(fs, PHASE), EXIT_CODE)
    /\ UNCHANGED <<fs, PHASE, EXIT_CODE, missing_artifacts, gate_rc, log,
                   node_failed, rust_failed, ran, last_failure, retried>>
    /\ UNCHANGED outer

\* pnpm ... || npm ... || EXIT_CODE=$?
NodeStep(at, next) ==
    /\ pc = at
    /\ \E pnpm \in ToolExits, npm \in ToolExits :
        /\ EXIT_CODE' = OrAssign(OrList(pnpm, npm), EXIT_CODE)
        /\ node_failed' = (node_failed \/ OrList(pnpm, npm) # 0)
        /\ last_failure' = OrAssign(OrList(pnpm, npm), last_failure)
        /\ retried' = (retried \/ pnpm # 0)
    /\ ran' = Append(ran, at)
    /\ Finish(next, EXIT_CODE')
    /\ UNCHANGED <<fs, PHASE, missing_artifacts, gate_rc, log, rust_failed>>
    /\ UNCHANGED outer

\* the typecheck straight after the linter
NodeLint_ThenTypecheck == NodeStep("node_lint", "node_typecheck")

NodeLint      == NodeStep("node_lint", "node_prettier")
NodePrettier  == NodeStep("node_prettier", "node_typecheck")
NodeTypecheck == NodeStep("node_typecheck", "node_test")
NodeTest      == NodeStep("node_test", AfterNode(fs, PHASE))

\* cargo ... || EXIT_CODE=$?
CargoStep(at, next) ==
    /\ pc = at
    /\ \E cargo \in ToolExits :
        /\ EXIT_CODE' = OrAssign(cargo, EXIT_CODE)
        /\ rust_failed' = (rust_failed \/ cargo # 0)
        /\ last_failure' = OrAssign(cargo, last_failure)
    /\ ran' = Append(ran, at)
    /\ Finish(next, EXIT_CODE')
    /\ UNCHANGED <<fs, PHASE, missing_artifacts, gate_rc, log, node_failed, retried>>
    /\ UNCHANGED outer

CargoFmt    == CargoStep("cargo_fmt", "cargo_clippy")
CargoClippy == CargoStep("cargo_clippy", "cargo_test")
CargoTest   == CargoStep("cargo_test", "done")

Next ==
    \/ Start
    \/ ArtifactValidation
    \/ SkipArtifactValidation
    \/ NodeLint
    \/ NodePrettier
    \/ NodeTypecheck
    \/ NodeTest
    \/ CargoFmt
    \/ CargoClippy
    \/ CargoTest

Spec == Init /\ [][Next]_vars

(***************************************************************************)
(* orchestrator/plugins.runtime.sh and the producer scripts it calls       *)
(***************************************************************************)
\* the en dash of the audit scripts' titles and the backtick of the unit
\* help, each as one character
EnDash   == "U+2013"
Backtick == "U+0060"

L_Empty ==
    <<>>
L_ClaudeSpecTitle ==
    <<"#", " ", "S", "p", "e", "c", " ", "F", "i", "n", "d", "i", "n", "g", "s", " ", "(", "f", "r", "o", "m", " ", "C", "l", "a", "u", "d", "e", " ", "p", "l", "u", "g", "i", "n", "s", ")">>
L_ClaudePlanTitle ==
    <<"#", " ", "P", "l", "a", "n", " ", "S", "c", "a", "n", " ", "(", "f", "r", "o", "m", " ", "C", "l", "a", "u", "d", "e", " ", "p", "l", "u", "g", "i", "n", "s", ")">>
L_ClaudeTasksTitle ==
    <<"#", " ", "P", "y", "t", "h", "o", "n", " ", "U", "n", "i", "t", " ", "T", "e", "s", "t", "i", "n", "g", " ", "H", "e", "l", "p", " ", "(", "f", "r", "o", "m", " ", "C", "l", "a", "u", "d", "e", " ", "p", "l", "u", "g", "i", "n", "s", ")">>
L_ClaudeImplementTitle ==
    <<"#", " ", "I", "m", "p", "l", "e", "m", "e", "n", "t", " ", "S", "c", "a", "n", " ", "(", "f", "r", "o", "m", " ", "C", "l", "a", "u", "d", "e", " ", "p", "l", "u", "g", "i", "n", "s", ")">>
L_ClaudeAnalyzeTitle ==
    <<"#", " ", "C", "o", "m", "p", "l", "i", "a", "n", "c", "e", " ", "R", "e", "p", "o", "r", "t", " ", "(", "f", "r", "o", "m", " ", "C", "l", "a", "u", "d", "e", " ", "p", "l", "u", "g", "i", "n", "s", ")">>
L_ClaudePlaceholder ==
    <<"_", "C", "l", "a", "u", "d", "e", " ", "p", "l", "u", "g", "i", "n", "s", " ", "s", "h", "o", "u", "l", "d", " ", "a", "p", "p", "e", "n", "d", " ", "t", "h", "e", "i", "r", " ", "o", "u", "t", "p", "u", "t", "s", " ", "h", "e", "r", "e", ".", "_">>
L_JsTitle ==
    <<"#", " ", "P", "l", "a", "n", " ", "S", "c", "a", "n", " ", EnDash, " ", "J", "S", "/", "T", "S">>
L_WorkspaceMode ==
    <<"(", "w", "o", "r", "k", "s", "p", "a", "c", "e", " ", "m", "o", "d", "e", ")">>
L_NoPkgMgr ==
    <<"-", " ", "P", "a", "c", "k", "a", "g", "e", " ", "m", "a", "n", "a", "g", "e", "r", " ", "n", "o", "t", " ", "f", "o", "u", "n", "d", ";", " ", "s", "k", "i", "p", "p", "i", "n", "g", " ", "J", "S", " ", "a", "u", "d", "i", "t">>
L_RustTitle ==
    <<"#", " ", "P", "l", "a", "n", " ", "S", "c", "a", "n", " ", EnDash, " ", "R", "u", "s", "t">>
L_NoCargo ==
    <<"-", " ", "c", "a", "r", "g", "o", " ", "n", "o", "t", " ", "f", "o", "u", "n", "d", ";", " ", "s", "k", "i", "p", "p", "i", "n", "g", " ", "R", "u", "s", "t", " ", "a", "u", "d", "i", "t">>
L_CargoAuditTip ==
    <<"(", "t", "i", "p", ")", " ", "I", "n", "s", "t", "a", "l", "l", " ", "c", "a", "r", "g", "o", "-", "a", "u", "d", "i", "t", ":", " ", "c", "a", "r", "g", "o", " ", "i", "n", "s", "t", "a", "l", "l", " ", "c", "a", "r", "g", "o", "-", "a", "u", "d", "i", "t">>
L_PythonTitle ==
    <<"#", " ", "P", "l", "a", "n", " ", "S", "c", "a", "n", " ", EnDash, " ", "P", "y", "t", "h", "o", "n">>
L_NoPython ==
    <<"-", " ", "N", "o", " ", "P", "y", "t", "h", "o", "n", " ", "p", "r", "o", "j", "e", "c", "t", " ", "d", "e", "t", "e", "c", "t", "e", "d", ";", " ", "s", "k", "i", "p", "p", "i", "n", "g">>
L_PipAuditTip ==
    <<"(", "t", "i", "p", ")", " ", "I", "n", "s", "t", "a", "l", "l", " ", "p", "i", "p", "-", "a", "u", "d", "i", "t", ":", " ", "p", "i", "p", " ", "i", "n", "s", "t", "a", "l", "l", " ", "p", "i", "p", "-", "a", "u", "d", "i", "t">>
L_UnitHelpTitle ==
    <<"#", " ", "P", "y", "t", "h", "o", "n", " ", "U", "n", "i", "t", " ", "T", "e", "s", "t", "i", "n", "g", " ", "H", "e", "l", "p">>
L_UnitHelpStructure ==
    <<"-", " ", "S", "u", "g", "g", "e", "s", "t", "e", "d", " ", "s", "t", "r", "u", "c", "t", "u", "r", "e", ":", " ", Backtick, "t", "e", "s", "t", "s", "/", Backtick, " ", "w", "i", "t", "h", " ", Backtick, "t", "e", "s", "t", "_", "*", ".", "p", "y", Backtick>>
L_UnitHelpCoverage ==
    <<"-", " ", "C", "o", "v", "e", "r", "a", "g", "e", " ", "g", "o", "a", "l", ":", " ", ">", "=", " ", "8", "0", "%">>
L_UnitHelpCommands ==
    <<"-", " ", "C", "o", "m", "m", "a", "n", "d", "s", ":">>
L_UnitHelpPytest ==
    <<" ", " ", "-", " ", Backtick, "p", "y", "t", "e", "s", "t", " ", "-", "q", Backtick>>
L_UnitHelpMaxfail ==
    <<" ", " ", "-", " ", Backtick, "p", "y", "t", "e", "s", "t", " ", "-", "-", "m", "a", "x", "f", "a", "i", "l", "=", "1", " ", "-", "-", "d", "i", "s", "a", "b", "l", "e", "-", "w", "a", "r", "n", "i", "n", "g", "s", " ", "-", "q", Backtick>>
L_UnitHelpCi ==
    <<"-", " ", "A", "d", "d", " ", "C", "I", " ", "t", "a", "r", "g", "e", "t", " ", "t", "o", " ", "e", "n", "f", "o", "r", "c", "e", " ", "c", "o", "v", "e", "r", "a", "g", "e", " ", "t", "h", "r", "e", "s", "h", "o", "l", "d", ".">>
L_ThreatModelTitle ==
    <<"#", " ", "S", "p", "e", "c", " ", "F", "i", "n", "d", "i", "n", "g", "s", " ", "(", "T", "h", "r", "e", "a", "t", " ", "M", "o", "d", "e", "l", ")">>
L_ThreatModelSection ==
    <<"#", "#", " ", "A", "u", "t", "h", "e", "n", "t", "i", "c", "a", "t", "i", "o", "n", " ", "&", " ", "A", "u", "t", "h", "o", "r", "i", "z", "a", "t", "i", "o", "n">>
L_ThreatModelItem ==
    <<"-", " ", "U", "s", "e", "r", "s", " ", "&", " ", "r", "o", "l", "e", "s", ":", " ", "T", "B", "D">>
L_ComplianceTitle ==
    <<"#", " ", "C", "o", "m", "p", "l", "i", "a", "n", "c", "e", " ", "R", "e", "p", "o", "r", "t", " ", "(", "S", "O", "C", "2", "/", "G", "D", "P", "R", " ", "C", "h", "e", "c", "k", "l", "i", "s", "t", ")">>
L_ComplianceHeader ==
    <<"|", " ", "C", "o", "n", "t", "r", "o", "l", " ", "|", " ", "S", "t", "a", "t", "u", "s", " ", "|", " ", "N", "o", "t", "e", "s", " ", "|">>
L_ComplianceRule ==
    <<"|", "-", "-", "-", "|", "-", "-", "-", "|", "-", "-", "-", "|">>
L_ComplianceRow ==
    <<"|", " ", "A", "c", "c", "e", "s", "s", " ", "c", "o", "n", "t", "r", "o", "l", " ", "|", " ", "T", "O", "D", "O", " ", "|", " ", "R", "o", "l", "e", "s", " ", "&", " ", "l", "e", "a", "s", "t", " ", "p", "r", "i", "v", "i", "l", "e", "g", "e", " ", "|">>

\* the stub a run_claude_* function leaves in its report
ClaudeStub(title) == <<title, L_Empty, L_ClaudePlaceholder>>

\* the text scripts/python-unit-help.sh writes
T_UnitHelp ==
    <<L_UnitHelpTitle, L_Empty, L_UnitHelpStructure, L_UnitHelpCoverage,
      L_UnitHelpCommands, L_UnitHelpPytest, L_UnitHelpMaxfail, L_UnitHelpCi, L_Empty>>

\* the head of the threat model and of the compliance checklist kept under reports/
T_ThreatModel == <<L_ThreatModelTitle, L_Empty, L_ThreatModelSection, L_ThreatModelItem>>
T_Compliance  == <<L_ComplianceTitle, L_Empty, L_ComplianceHeader, L_ComplianceRule,
                   L_ComplianceRow>>

\* : > path; printf ... >> path   and   cat > path
WriteFile(f, path, text) ==
    [p \in DOMAIN f \cup {path} |-> IF p = path THEN text ELSE f[p]]

\* echo ... >> path
AppendFile(f, path, text) ==
    WriteFile(f, path, (IF IsFile(f, path) THEN f[path] ELSE <<>>) \o text)

\* mv -f from to
MoveFile(f, from, to) ==
    [p \in (DOMAIN f \ {from}) \cup {to} |-> IF p = to THEN f[from] ELSE f[p]]

\* the values ORCHESTRATOR_PLUGIN_MODE is tried with: unset, the two documented
\* values and a value that is neither
EnvModes == {"", "cli", "claude", "CLAUDE"}

\* ${ORCHESTRATOR_PLUGIN_MODE:-cli}
ModeOf(env) == IF env = "" THEN "cli" ELSE env

\* the claude) branch matched whatever the case of the value
IsClaudeMode_AnyCase(mode) == mode \in {"claude", "CLAUDE"}

\* case "$MODE" in claude) ... ;; cli|*) ... ;; esac
IsClaudeMode(mode) == mode = "claude"

\* what the producer scripts find installed: the package manager of audit-js.sh
\* (pnpm in a pnpm workspace, another one, none), cargo and cargo-audit,
\* pip-audit, and the exit status of the one script of the phase that is not
\* part of the sources (0, a failure, 127 when the file is not there)
ScriptExits == {0, 1, 127}
ToolEnv(js, rust, py, script) == [js |-> js, rust |-> rust, py |-> py, script |-> script]

\* the environments tried: every branch of every script, the missing script
\* succeeding, failing and absent
ToolEnvs ==
    {ToolEnv("workspace", "audit", "audit", 0),
     ToolEnv("plain", "tip", "tip", 0),
     ToolEnv("none", "nocargo", "tip", 0),
     ToolEnv("plain", "audit", "audit", 1),
     ToolEnv("none", "nocargo", "audit", 127)}

\* audit-js.sh without its `: > "$outfile"`
AuditJs_Append(f, js) ==
    AppendFile(f, PlanScan,
        <<L_JsTitle>> \o
        (CASE js = "workspace" -> <<L_WorkspaceMode>>
           [] js = "plain"     -> <<>>
           [] OTHER            -> <<L_NoPkgMgr>>))

\* scripts/audit-js.sh: the output of the audit itself goes to the terminal
AuditJs(f, js) ==
    WriteFile(f, PlanScan,
        <<L_JsTitle>> \o
        (CASE js = "workspace" -> <<L_WorkspaceMode>>
           [] js = "plain"     -> <<>>
           [] OTHER            -> <<L_NoPkgMgr>>))

\* scripts/audit-rust.sh
AuditRust(f, rust) ==
    AppendFile(f, PlanScan,
        <<L_Empty, L_RustTitle, L_Empty>> \o
        (CASE rust = "nocargo" -> <<L_NoCargo>>
           [] rust = "tip"     -> <<L_CargoAuditTip>>
           [] OTHER            -> <<>>))

\* scripts/audit-python.sh
AuditPython(f, py) ==
    AppendFile(f, PlanScan,
        <<L_Empty, L_PythonTitle, L_Empty>> \o
        (IF ~IsFile(f, PyprojectToml) /\ ~IsFile(f, RequirementsTxt) THEN <<L_NoPython>>
         ELSE IF py = "tip" THEN <<L_PipAuditTip>>
         ELSE <<>>))

\* a script that is not part of the sources: it leaves its report at path, or
\* fails and leaves the workspace as it was
GenerateReport(f, path, text, status) ==
    IF status = 0 THEN [fs |-> WriteFile(f, path, text), rc |-> 0]
    ELSE [fs |-> f, rc |-> status]

\* scripts/merge-audits.sh, not part of the sources: the merged output is the
\* plan scan the audit scripts have written
MergeAudits(f, status) == [fs |-> f, rc |-> status]

RunClaudeTarget(phase) ==
    CASE phase = "spec"      -> SpecFindings
      [] phase = "plan"      -> PlanScan
      [] phase = "tasks"     -> TasksUnitHelp
      [] phase = "implement" -> ImplementScan
      [] phase = "analyze"   -> AnalyzeCompliance

RunClaudeTitle(phase) ==
    CASE phase = "spec"      -> L_ClaudeSpecTitle
      [] phase = "plan"      -> L_ClaudePlanTitle
      [] phase = "tasks"     -> L_ClaudeTasksTitle
      [] phase = "implement" -> L_ClaudeImplementTitle
      [] phase = "analyze"   -> L_ClaudeAnalyzeTitle

RunClaudeName(phase) ==
    CASE phase = "spec"      -> "run_claude_spec"
      [] phase = "plan"      -> "run_claude_plan"
      [] phase = "tasks"     -> "run_claude_tasks"
      [] phase = "implement" -> "run_claude_implement"
      [] phase = "analyze"   -> "run_claude_analyze"

ClaudeWriters == { RunClaudeName(phase) : phase \in GatedPhases }
CliProducers  == {"run_cli_spec", "run_cli_plan", "run_cli_tasks",
                  "run_cli_implement", "run_cli_analyze"}

\* run_claude_<phase>
RunClaude(phase, f) ==
    [fs |-> WriteFile(f, RunClaudeTarget(phase), ClaudeStub(RunClaudeTitle(phase))),
     rc |-> 0, called |-> <<RunClaudeName(phase)>>]

\* run_cli_spec
RunCliSpec(f, tools) ==
    [fs |-> GenerateReport(f, SpecFindings, T_ThreatModel, tools.script).fs,
     rc |-> GenerateReport(f, SpecFindings, T_ThreatModel, tools.script).rc,
     called |-> <<"run_cli_spec">>]

\* run_cli_plan: the four scripts in order under set -e
RunCliPlan(f, tools) ==
    LET audited == AuditPython(AuditRust(AuditJs(f, tools.js), tools.rust), tools.py)
    IN  [fs |-> MergeAudits(audited, tools.script).fs,
         rc |-> MergeAudits(audited, tools.script).rc,
         called |-> <<"run_cli_plan">>]

\* run_cli_tasks
RunCliTasks(f) ==
    [fs |-> IF IsFile(f, PyprojectToml) \/ IsFile(f, RequirementsTxt)
            THEN WriteFile(f, TasksUnitHelp, T_UnitHelp) ELSE f,
     rc |-> 0, called |-> <<"run_cli_tasks">>]

\* run_cli_implement: run_cli_plan, then the plan scan moved to the implement scan
RunCliImplement(f, tools) ==
    LET plan == RunCliPlan(f, tools)
    IN  [fs |-> IF plan.rc = 0 THEN MoveFile(plan.fs, PlanScan, ImplementScan) ELSE plan.fs,
         rc |-> plan.rc,
         called |-> <<"run_cli_implement">> \o plan.called]

\* run_cli_analyze
RunCliAnalyze(f, tools) ==
    [fs |-> GenerateReport(f, AnalyzeCompliance, T_Compliance, tools.script).fs,
     rc |-> GenerateReport(f, AnalyzeCompliance, T_Compliance, tools.script).rc,
     called |-> <<"run_cli_analyze">>]

\* plugins.runtime.sh PHASE with MODE: the workspace it leaves, its exit status
\* and the functions it called
PluginsRuntime(mode, phase, f, tools) ==
    IF phase \notin GatedPhases THEN [fs |-> f, rc |-> 1, called |-> <<>>]
    ELSE IF IsClaudeMode(mode) THEN RunClaude(phase, f)
    ELSE CASE phase = "spec"      -> RunCliSpec(f, tools)
           [] phase = "plan"      -> RunCliPlan(f, tools)
           [] phase = "tasks"     -> RunCliTasks(f)
           [] phase = "implement" -> RunCliImplement(f, tools)
           [] phase = "analyze"   -> RunCliAnalyze(f, tools)

(***************************************************************************)
(* ci/run_phase_checks.sh                                                  *)
(***************************************************************************)
\* at most this many files exist when run_phase_checks.sh starts
MaxCheckFiles == 1

CheckWorkspaces ==
    UNION { { c \in [S -> ReportTexts \cup PlanTexts \cup DecisionsTexts \cup {T_Manifest}] :
                \A p \in S : c[p] \in TextsOf(p) } :
            S \in { T \in SUBSET Paths : Cardinality(T) <= MaxCheckFiles } }

\* X  (under set -e a non-zero status ends the script)
OrTrue_Plain(status) == status

\* X || true
OrTrue(status) == 0

InitChecks ==
    /\ fs \in CheckWorkspaces
    /\ Init

\* run_phase_checks.sh from its first line to the start of lint_phase.sh
RunPhaseChecks ==
    /\ pc = "idle"
    /\ \E arg \in PhaseArgs \cup {""}, env \in EnvModes, tools \in ToolEnvs :
        LET result == PluginsRuntime(ModeOf(ModeOf(env)), arg, fs, tools)
        IN  IF arg = ""
            THEN /\ PHASE' = arg
                 /\ pc' = "ci_done"
                 /\ ci_status' = 2
                 /\ UNCHANGED <<fs, ORCHESTRATOR_PLUGIN_MODE, inv_rc, producers>>
            ELSE /\ ORCHESTRATOR_PLUGIN_MODE' = env
                 /\ fs' = result.fs
                 /\ inv_rc' = result.rc
                 /\ producers' = result.called
                 /\ PHASE' = arg
                 /\ pc' = IF OrTrue(result.rc) = 0 THEN "artifacts" ELSE "ci_done"
                 /\ ci_status' = OrTrue(result.rc)
    /\ EXIT_CODE' = 0
    /\ ran' = <<>>
    /\ last_failure' = 0
    /\ retried' = FALSE
    /\ UNCHANGED <<missing_artifacts, gate_rc, log, node_failed, rust_failed,
                   exit_status, run, results, regen>>

\* lint_phase.sh has exited: its status ends run_phase_checks.sh under set -e,
\* otherwise the script prints OK and ends with 0
ChecksExit ==
    /\ pc = "done"
    /\ pc' = "ci_done"
    /\ ci_status' = exit_status
    /\ UNCHANGED <<fs, PHASE, EXIT_CODE, missing_artifacts, gate_rc, log, node_failed,
                   rust_failed, exit_status, ran, last_failure, retried,
                   ORCHESTRATOR_PLUGIN_MODE, inv_rc, producers, run, results, regen>>

NextChecks ==
    \/ RunPhaseChecks
    \/ ArtifactValidation
    \/ SkipArtifactValidation
    \/ NodeLint
    \/ NodePrettier
    \/ NodeTypecheck
    \/ NodeTest
    \/ CargoFmt
    \/ CargoClippy
    \/ CargoTest
    \/ ChecksExit

SpecChecks == InitChecks /\ [][NextChecks]_vars

(***************************************************************************)
(* Vocabulary of the properties                                            *)
(***************************************************************************)
Done == pc = "done"

\* artifact validation has run in this run
Validated == pc \notin {"idle", "artifacts"}

ValidatorFailed == node_failed \/ rust_failed

Range(seq) == { seq[i] : i \in 1..Len(seq) }

\* the artifacts the reports directory documents for a phase, tasks-unit-help.md
\* being for Python workspaces only
RequiredArtifacts(phase, f) ==
    CASE phase = "spec"      -> {SpecFindings}
      [] phase = "plan"      -> {PlanScan}
      [] phase = "tasks"     -> IF IsFile(f, RequirementsTxt) \/ IsFile(f, PyprojectToml)
                                THEN {TasksUnitHelp} ELSE {}
      [] phase = "implement" -> {ImplementScan}
      [] phase = "analyze"   -> {AnalyzeDeltas, AnalyzeCompliance}
      [] OTHER               -> {}

RequiredMissing(phase, f) == { a \in RequiredArtifacts(phase, f) : ~IsFile(f, a) }

\* the phases with a security report, and that report
ScannedPhases == {"spec", "plan", "implement", "analyze"}

SecurityReport(phase) ==
    CASE phase = "spec"      -> SpecFindings
      [] phase = "plan"      -> PlanScan
      [] phase = "implement" -> ImplementScan
      [] phase = "analyze"   -> AnalyzeDeltas

HasLine(f, path, lines) ==
    IsFile(f, path) /\ \E n \in 1..Len(f[path]) : f[path][n] \in lines

\* the report holds a line that marks a finding as CRITICAL or HIGH
HasSeverityMarker(f, path) ==
    HasLine(f, path, {L_SeverityHigh, L_SeverityCriticalLower})

\* the keyword CRITICAL or HIGH occurs somewhere in the file, in any case
HasBlockingKeyword(f, path) ==
    /\ IsFile(f, path)
    /\ \E n \in 1..Len(f[path]) :
         \/ Occurs(P_Critical, FoldLine(f[path][n]))
         \/ Occurs(P_High, FoldLine(f[path][n]))

\* the file marks findings as MEDIUM or LOW
HasAdvisoryMarker(f, path) ==
    HasLine(f, path, {L_SeverityMedium, L_SeverityLow})

HasMitigationHeader(f) == HasLine(f, PlanMd, {L_MitigationHeader})
HasOwnerTimeline(f)    == HasLine(f, PlanMd, {L_OwnerTimeline})
HasWaiverRecord(f)     == HasLine(f, DecisionsMd, {L_WaiverHeader})

\* a finding of the phase's security report with no mitigation section and no waiver
FindingUnresolved(phase, f) ==
    /\ phase \in ScannedPhases
    /\ HasSeverityMarker(f, SecurityReport(phase))
    /\ ~HasMitigationHeader(f)
    /\ ~HasWaiverRecord(f)

(***************************************************************************)
(* Properties                                                              *)
(***************************************************************************)

\* C1: the exit status of a run is that of its most severe failure: a status
\* 1 (missing artifact) or 2 (unmitigated finding) returned by the artifact
\* gate is the status the process exits with, whatever the validator steps
\* that run after it return.
C1_GateStatusNotMasked ==
    (Done /\ PHASE \in GatedPhases /\ gate_rc \in {1, 2}) => exit_status = gate_rc

\* C2: a run exits 0 exactly when no check failed: no required artifact is
\* missing, no CRITICAL/HIGH marker of the scanned report is left without a
\* mitigation section or waiver, and no validator step failed.
C2_ExitZeroIffNoFailure ==
    Done =>
        (exit_status = 0 <=>
            /\ RequiredMissing(PHASE, fs) = {}
            /\ ~FindingUnresolved(PHASE, fs)
            /\ ~ValidatorFailed)

\* C2's case: the gate failed in phase implement, every Node step after it passed
C2_Witness ==
    /\ Done
    /\ PHASE = "implement"
    /\ gate_rc # 0
    /\ IsFile(fs, PackageJson)
    /\ ~ValidatorFailed

\* C3: in phases plan, spec and analyze a run with a required artifact missing
\* exits 1 and lists every missing path, whatever plans/plan.md, DECISIONS.md
\* and the manifests are.
C3_MissingArtifactExitsOne ==
    (Done /\ PHASE \in {"plan", "spec", "analyze"} /\ RequiredMissing(PHASE, fs) # {}) =>
        /\ exit_status = 1
        /\ RequiredMissing(PHASE, fs) \subseteq Range(missing_artifacts)
        /\ log = <<"missing required plugin artifacts">>

\* C3's case: plan-scan.md is missing in phase plan, in a Node workspace with a plan
C3_Witness ==
    /\ Done
    /\ PHASE = "plan"
    /\ ~IsFile(fs, PlanScan)
    /\ IsFile(fs, PackageJson)
    /\ IsFile(fs, PlanMd)

\* C4: in phases spec, plan, implement and analyze, when every required
\* artifact exists, the security report holds a CRITICAL/HIGH severity marker,
\* plans/plan.md has no Security Mitigations section, DECISIONS.md has no
\* waiver and no validator step failed, the run exits 2.
C4_UnmitigatedExitsTwo ==
    (/\ Done
     /\ PHASE \in ScannedPhases
     /\ RequiredMissing(PHASE, fs) = {}
     /\ FindingUnresolved(PHASE, fs)
     /\ ~ValidatorFailed) =>
        /\ exit_status = 2
        /\ gate_rc = 2

\* C4's case: phase analyze, a lower-case critical marker in analyze-deltas.md,
\* a plan with owner and timeline but no mitigation section
C4_Witness ==
    /\ Done
    /\ PHASE = "analyze"
    /\ IsFile(fs, AnalyzeCompliance)
    /\ HasLine(fs, AnalyzeDeltas, {L_SeverityCriticalLower})
    /\ IsFile(fs, PlanMd)

\* C5: a finding is resolved by either document alone: with a CRITICAL/HIGH
\* marker in the scanned report and a mitigation record (section header with
\* owner and timeline) in plans/plan.md, or a waiver record in DECISIONS.md,
\* the gate reports no unmitigated finding, and the run exits 0 when nothing
\* is missing and no validator step failed.
C5_EitherDocumentResolves ==
    (/\ Done
     /\ PHASE \in ScannedPhases
     /\ HasSeverityMarker(fs, SecurityReport(PHASE))
     /\ \/ HasMitigationHeader(fs) /\ HasOwnerTimeline(fs)
        \/ HasWaiverRecord(fs)) =>
        /\ gate_rc # 2
        /\ "no mitigation plan or waiver found" \notin Range(log)
        /\ (RequiredMissing(PHASE, fs) = {} /\ ~ValidatorFailed) => exit_status = 0

\* C5's case: the waiver alone, plans/plan.md absent
C5_Witness ==
    /\ Done
    /\ PHASE \in ScannedPhases
    /\ HasSeverityMarker(fs, SecurityReport(PHASE))
    /\ HasWaiverRecord(fs)
    /\ ~IsFile(fs, PlanMd)
    /\ exit_status = 0

\* C6: the mitigation plan resolves a finding only when plans/plan.md holds
\* both the section header and an owner/timeline marker: with exactly one of
\* the two and no waiver the finding stays unresolved and the gate returns 2.
C6_HeaderAndOwnerBothNeeded ==
    (/\ Done
     /\ PHASE \in ScannedPhases
     /\ RequiredMissing(PHASE, fs) = {}
     /\ HasSeverityMarker(fs, SecurityReport(PHASE))
     /\ HasMitigationHeader(fs) # HasOwnerTimeline(fs)
     /\ ~HasWaiverRecord(fs)) =>
        /\ gate_rc = 2
        /\ ~ValidatorFailed => exit_status = 2

\* C7: the scan is conservative: any occurrence of the keyword CRITICAL or
\* HIGH in the scanned report, in any case and on any line, is a blocking
\* finding: with no mitigation and no waiver the gate returns 2.
C7_AnyKeywordBlocks ==
    (/\ Done
     /\ PHASE \in ScannedPhases
     /\ RequiredMissing(PHASE, fs) = {}
     /\ HasBlockingKeyword(fs, SecurityReport(PHASE))
     /\ ~HasMitigationHeader(fs)
     /\ ~HasWaiverRecord(fs)) =>
        gate_rc = 2

\* C8: in phase tasks, tasks-unit-help.md is required exactly when
\* requirements.txt or pyproject.toml exists: with a manifest and no such file
\* the run fails with the missing artifact (exit 1), otherwise the run passes.
C8_TasksArtifactIffPython ==
    (Done /\ PHASE = "tasks") =>
        IF (IsFile(fs, RequirementsTxt) \/ IsFile(fs, PyprojectToml)) /\ ~IsFile(fs, TasksUnitHelp)
        THEN exit_status = 1 /\ missing_artifacts = <<TasksUnitHelp>>
        ELSE exit_status = 0 /\ missing_artifacts = <<>>

\* C8's case: pyproject.toml alone makes the absent tasks-unit-help.md a failure
C8_Witness ==
    /\ Done
    /\ PHASE = "tasks"
    /\ IsFile(fs, PyprojectToml)
    /\ ~IsFile(fs, RequirementsTxt)
    /\ ~IsFile(fs, TasksUnitHelp)

\* C9: the artifact gate lists every missing artifact: after validation the
\* reported list holds exactly the required artifacts of the phase that do not
\* exist, each once.
C9_MissingListComplete ==
    (Validated /\ PHASE \in GatedPhases) =>
        /\ Range(missing_artifacts) = RequiredMissing(PHASE, fs)
        /\ Len(missing_artifacts) = Cardinality(RequiredMissing(PHASE, fs))

\* C9's case: both artifacts of analyze are absent and both are listed
C9_Witness ==
    /\ Validated
    /\ PHASE = "analyze"
    /\ ~IsFile(fs, AnalyzeDeltas)
    /\ ~IsFile(fs, AnalyzeCompliance)

LifecyclePhases == GatedPhases \cup {"review", "deploy"}

\* C11: with a blocking finding, a mitigation or waiver document that exists
\* but holds no valid record (no section header with owner and timeline, no
\* waiver) makes the run exit 3, not the 2 of a run with no document at all.
C11_InvalidDocExitsThree ==
    (/\ Done
     /\ PHASE \in ScannedPhases
     /\ RequiredMissing(PHASE, fs) = {}
     /\ HasSeverityMarker(fs, SecurityReport(PHASE))
     /\ IsFile(fs, PlanMd) \/ IsFile(fs, DecisionsMd)
     /\ ~(HasMitigationHeader(fs) /\ HasOwnerTimeline(fs))
     /\ ~HasWaiverRecord(fs)
     /\ ~ValidatorFailed) =>
        exit_status = 3

\* C12: a run for a phase name outside the lifecycle's phases never reports
\* success: it exits non-zero.
C12_UnknownPhaseFails ==
    (Done /\ PHASE \notin LifecyclePhases) => exit_status # 0

\* C13: statuses 1, 2 and 3 are reserved: a run whose only failure is a
\* validator step (nothing missing, no unresolved finding) exits with a
\* non-zero status other than 1, 2 and 3.
C13_ValidatorStatusReserved ==
    (/\ Done
     /\ RequiredMissing(PHASE, fs) = {}
     /\ ~FindingUnresolved(PHASE, fs)
     /\ gate_rc = 0
     /\ ValidatorFailed) =>
        exit_status \notin {0, 1, 2, 3}

\* C19: the gate for phase deploy enforces the analyze evidence: it fails
\* unless both analyze artifacts exist and analyze-deltas.md holds no
\* unresolved CRITICAL/HIGH finding.
C19_DeployEnforcesAnalyze ==
    (/\ Done
     /\ PHASE = "deploy"
     /\ \/ RequiredMissing("analyze", fs) # {}
        \/ FindingUnresolved("analyze", fs)) =>
        exit_status # 0

\* the steps of the two validator chains
NodeSteps  == {"node_lint", "node_prettier", "node_typecheck", "node_test"}
CargoSteps == {"cargo_fmt", "cargo_clippy", "cargo_test"}

C20_ChainFailFast ==
    [][(Len(ran') = Len(ran) + 1) =>
          /\ ran'[Len(ran')] \in NodeSteps => ~node_failed
          /\ ran'[Len(ran')] \in CargoSteps => ~rust_failed]_vars

\* run_phase_checks.sh has ended after calling plugins.runtime.sh
ChecksDone == pc = "ci_done" /\ PHASE # ""

\* C15: plugin invocation is best-effort: whatever status plugins.runtime.sh
\* returns, lint_phase.sh runs after it on the workspace it left, and
\* run_phase_checks.sh exits with the status of lint_phase.sh.
C15_InvokerBestEffort ==
    ChecksDone =>
        /\ ci_status = exit_status
        /\ exit_status = ExitStatus(EXIT_CODE)
        /\ PHASE \in GatedPhases =>
              /\ gate_rc = ValidatePluginArtifacts(PHASE, fs)
              /\ log = ValidateLog(PHASE, fs)
              /\ log # <<>>

\* C15's case: the producer script was not there (127), the gate ran and passed
C15_Witness ==
    /\ ChecksDone
    /\ PHASE = "spec"
    /\ inv_rc = 127
    /\ log = <<"plugin artifacts validated">>
    /\ ci_status = 0

\* C16: the mode is chosen from ORCHESTRATOR_PLUGIN_MODE and never mixed: for
\* a phase plugins.runtime.sh knows, the placeholder writers run exactly when
\* the variable is "claude", the local producers exactly when it is unset or
\* anything else, and no run calls both kinds.
C16_ModeNeverMixed ==
    (pc # "idle" /\ PHASE # "") =>
        LET called == Range(producers)
        IN  /\ ~(called \cap ClaudeWriters # {} /\ called \cap CliProducers # {})
            /\ PHASE \in GatedPhases =>
                  /\ called \cap ClaudeWriters # {} <=> ORCHESTRATOR_PLUGIN_MODE = "claude"
                  /\ called \cap CliProducers # {} <=> ORCHESTRATOR_PLUGIN_MODE # "claude"
            /\ PHASE \notin GatedPhases => called = {}

\* C16's case: a value that is neither documented one selects the local producers
C16_Witness ==
    /\ ChecksDone
    /\ ORCHESTRATOR_PLUGIN_MODE = "CLAUDE"
    /\ producers = <<"run_cli_implement", "run_cli_plan">>
    /\ IsFile(fs, ImplementScan)

\* C17: no artifact is ever deleted: a file under reports/ that exists before
\* a step of plugins.runtime.sh or lint_phase.sh exists after it.
C17_ArtifactsNeverDeleted ==
    [][\A p \in Reports : IsFile(fs, p) => IsFile(fs', p)]_vars

(***************************************************************************)
(* lint_phase.sh run again in the same workspace                           *)
(***************************************************************************)
\* number of runs of lint_phase.sh in a row
MaxRuns == 2

\* the run has ended and the hook is called again: the outcome of the ended
\* run is recorded, the new process starts with what the old one left in
\* its caller's hands (the workspace, the status it exited with)
Rerun ==
    /\ pc = "done"
    /\ run < MaxRuns
    /\ results' = results \cup
                    {[phase |-> PHASE, outcome |-> last_failure, exit |-> exit_status]}
    /\ run' = run + 1
    /\ pc' = "idle"
    /\ missing_artifacts' = <<>>
    /\ gate_rc' = 0
    /\ log' = <<>>
    /\ node_failed' = FALSE
    /\ rust_failed' = FALSE
    /\ ran' = <<>>
    /\ last_failure' = 0
    /\ retried' = FALSE
    /\ UNCHANGED <<fs, PHASE, EXIT_CODE, exit_status, ORCHESTRATOR_PLUGIN_MODE,
                   inv_rc, producers, ci_status, regen>>

InitRerun ==
    /\ fs \in CheckWorkspaces
    /\ Init

NextRerun ==
    \/ Start
    \/ ArtifactValidation
    \/ SkipArtifactValidation
    \/ NodeLint
    \/ NodePrettier
    \/ NodeTypecheck
    \/ NodeTest
    \/ CargoFmt
    \/ CargoClippy
    \/ CargoTest
    \/ Rerun

SpecRerun == InitRerun /\ [][NextRerun]_vars

\* the exit code as a function of the phase, the workspace and the validator
\* outcomes: the last failing validator status, else the artifact gate's
GateExit(phase, f, outcome) ==
    IF outcome # 0 THEN outcome
    ELSE IF phase \in GatedPhases THEN ValidatePluginArtifacts(phase, f)
    ELSE 0

\* C18: the gate is idempotent and deterministic: a run's exit code is a
\* function of its phase, the workspace and the validator outcomes alone, so
\* it equals that of every earlier run of the same phase with the same
\* outcomes in the unchanged workspace, whatever was checked before.
C18_GateDeterministic ==
    Done =>
        /\ exit_status = GateExit(PHASE, fs, last_failure)
        /\ \A r \in results :
              (r.phase = PHASE /\ r.outcome = last_failure) => r.exit = exit_status

\* C18's case: a second run of implement repeats a first that failed on a
\* missing artifact and a validator step, after which the status is the same
C18_Witness ==
    /\ Done
    /\ run = 2
    /\ PHASE = "implement"
    /\ gate_rc = 1
    /\ last_failure = 2
    /\ [phase |-> "implement", outcome |-> 2, exit |-> exit_status] \in results

\* C18's second case: the earlier run checked another phase and failed
C18_WitnessOtherPhase ==
    /\ Done
    /\ run = 2
    /\ PHASE = "review"
    /\ exit_status = 0
    /\ \E r \in results : r.phase = "plan" /\ r.exit = 1

\* the order of the steps in the two chains
NodeOrder  == <<"node_lint", "node_prettier", "node_typecheck", "node_test">>
CargoOrder == <<"cargo_fmt", "cargo_clippy", "cargo_test">>

IsPrefix(s, t) == Len(s) <= Len(t) /\ \A i \in 1..Len(s) : s[i] = t[i]

\* the steps of a chain among those executed, in the order of execution
StepsOf(chain, executed) ==
    LET InChain(step) == step \in chain IN SelectSeq(executed, InChain)

C22_UnavailableDistinct ==
    [][last_failure = 127 =>
          /\ last_failure' = 127
          /\ pc' = "done" => exit_status' = 127]_vars

\* C23: no stage is skipped because an earlier one failed: in a run where
\* the artifact check found a required artifact missing, an unresolved
\* finding of the security report that is present is still scanned and
\* reported.
C23_ScanAfterMissingArtifact ==
    (/\ Done
     /\ PHASE \in ScannedPhases
     /\ RequiredMissing(PHASE, fs) # {}
     /\ FindingUnresolved(PHASE, fs)) =>
        /\ "findings detected" \in Range(log)
        /\ "no mitigation plan or waiver found" \in Range(log)

\* C24: no failed step is retried: a validator step is attempted once, and a
\* first attempt that exits non-zero is not followed by another runner's
\* attempt at the same step.
C24_NoAutomaticRetry == ~retried

\* C25: the severity scan covers every required artifact of the phase: a
\* CRITICAL or HIGH marker in any of them, with no mitigation section and no
\* waiver, blocks the run.
C25_EveryArtifactScanned ==
    (/\ Done
     /\ PHASE \in GatedPhases
     /\ RequiredMissing(PHASE, fs) = {}
     /\ \E a \in RequiredArtifacts(PHASE, fs) : HasSeverityMarker(fs, a)
     /\ ~HasMitigationHeader(fs)
     /\ ~HasWaiverRecord(fs)) =>
        /\ exit_status # 0
        /\ "findings detected" \in Range(log)

(***************************************************************************)
(* plugins.runtime.sh interrupted and run again                            *)
(***************************************************************************)
\* the part of the workspace under reports/
ReportsOf(f) == [p \in DOMAIN f \cap Reports |-> f[p]]

\* the workspaces run_cli_plan passes through: before it, the plan scan
\* truncated, and after each audit script
RunCliPlanTrace(f, tools) ==
    <<f,
      WriteFile(f, PlanScan, <<>>),
      AuditJs(f, tools.js),
      AuditRust(AuditJs(f, tools.js), tools.rust),
      AuditPython(AuditRust(AuditJs(f, tools.js), tools.rust), tools.py)>>

\* the workspaces a run of plugins.runtime.sh passes through, write by write;
\* killing the run leaves one of them
PluginsRuntimeTrace(mode, phase, f, tools) ==
    IF phase \notin GatedPhases THEN <<f>>
    ELSE IF IsClaudeMode(mode)
    THEN <<f,
           WriteFile(f, RunClaudeTarget(phase), <<>>),
           WriteFile(f, RunClaudeTarget(phase), <<RunClaudeTitle(phase), L_Empty>>),
           RunClaude(phase, f).fs>>
    ELSE CASE phase = "spec"      -> <<f, RunCliSpec(f, tools).fs>>
           [] phase = "plan"      -> RunCliPlanTrace(f, tools)
           [] phase = "tasks"     ->
                IF IsFile(f, PyprojectToml) \/ IsFile(f, RequirementsTxt)
                THEN <<f,
                       WriteFile(f, TasksUnitHelp, <<>>),
                       WriteFile(f, TasksUnitHelp, SubSeq(T_UnitHelp, 1, 4)),
                       RunCliTasks(f).fs>>
                ELSE <<f>>
           [] phase = "implement" ->
                RunCliPlanTrace(f, tools) \o
                (IF RunCliPlan(f, tools).rc = 0 THEN <<RunCliImplement(f, tools).fs>>
                 ELSE <<>>)
           [] phase = "analyze"   -> <<f, RunCliAnalyze(f, tools).fs>>

\* plugins.runtime.sh is started and killed after some of its writes (or
\* runs to its end)
InvokeKilled ==
    /\ pc = "idle"
    /\ \E arg \in PhaseArgs, env \in EnvModes, tools \in ToolEnvs :
        LET trace == PluginsRuntimeTrace(ModeOf(env), arg, fs, tools)
        IN  /\ \E k \in 1..Len(trace) : fs' = trace[k]
            /\ regen' = [tools |-> tools,
                         reports |-> ReportsOf(PluginsRuntime(ModeOf(env), arg, fs, tools).fs)]
            /\ PHASE' = arg
            /\ ORCHESTRATOR_PLUGIN_MODE' = env
    /\ pc' = "killed"
    /\ UNCHANGED <<EXIT_CODE, missing_artifacts, gate_rc, log, node_failed, rust_failed,
                   exit_status, ran, last_failure, retried, inv_rc, producers,
                   ci_status, run, results>>

\* plugins.runtime.sh is run again for the same phase, with the same mode and tools
InvokeAgain ==
    /\ pc = "killed"
    /\ LET result == PluginsRuntime(ModeOf(ORCHESTRATOR_PLUGIN_MODE), PHASE, fs, regen.tools)
       IN  /\ fs' = result.fs
           /\ inv_rc' = result.rc
           /\ producers' = result.called
    /\ pc' = "regenerated"
    /\ UNCHANGED <<PHASE, EXIT_CODE, missing_artifacts, gate_rc, log, node_failed,
                   rust_failed, exit_status, ran, last_failure, retried,
                   ORCHESTRATOR_PLUGIN_MODE, ci_status, run, results, regen>>

InitRegen ==
    /\ fs \in CheckWorkspaces
    /\ Init

NextRegen ==
    \/ InvokeKilled
    \/ InvokeAgain

SpecRegen == InitRegen /\ [][NextRegen]_vars

\* C26: regeneration is idempotent: plugins.runtime.sh run again for the same
\* phase and mode, after a run that was killed at any of its writes or ran to
\* its end, leaves under reports/ exactly what one complete run leaves.
C26_RegenerationIdempotent ==
    pc = "regenerated" => ReportsOf(fs) = regen.reports

\* C26's case: the plan scan existed before, the first run of phase plan was
\* killed, the second wrote the scan from scratch
C26_Witness ==
    /\ pc = "regenerated"
    /\ PHASE = "plan"
    /\ ORCHESTRATOR_PLUGIN_MODE = ""
    /\ inv_rc = 0
    /\ IsFile(fs, PlanScan)
    /\ fs[PlanScan][1] = L_JsTitle
    /\ Len(fs[PlanScan]) = 9

\* C27: producers and gate agree: after a run of plugins.runtime.sh that
\* succeeded, for a phase it knows and in either mode, every artifact the
\* gate requires for the phase exists, and the gate run that follows reports
\* no missing artifact.
C27_ProducersSatisfyGate ==
    (ChecksDone /\ PHASE \in GatedPhases /\ inv_rc = 0) =>
        /\ RequiredMissing(PHASE, fs) = {}
        /\ missing_artifacts = <<>>
        /\ gate_rc # 1

\* a full phase check in claude mode for a phase whose security report the
\* placeholder writer overwrites
ClaudeCheckDone ==
    /\ ChecksDone
    /\ ORCHESTRATOR_PLUGIN_MODE = "claude"
    /\ PHASE \in {"spec", "plan", "implement"}

\* in claude mode the gate reads the placeholder stub, finds nothing in it
\* and returns 0, whatever the report held before the run
GateReadsStub ==
    ClaudeCheckDone =>
        /\ fs[SecurityReport(PHASE)] = ClaudeStub(RunClaudeTitle(PHASE))
        /\ gate_rc = 0
        /\ log = <<"plugin artifacts validated">>

\* C28: in claude mode a full phase check for spec, plan or implement reads
\* the placeholder stub in place of the phase's security report and never
\* exits 2.
C28_ClaudeNeverExitsTwo ==
    ClaudeCheckDone =>
        /\ fs[SecurityReport(PHASE)] = ClaudeStub(RunClaudeTitle(PHASE))
        /\ gate_rc # 2
        /\ exit_status # 2

\* one record covers every finding: with the mitigation section in
\* plans/plan.md or a waiver in DECISIONS.md the artifact gate never returns
\* 2, and a run in which no validator step failed never exits 2
OneRecordCoversAll ==
    (Done /\ (HasMitigationHeader(fs) \/ HasWaiverRecord(fs))) =>
        /\ gate_rc # 2
        /\ ~ValidatorFailed => exit_status # 2

\* C29: resolution is global: once plans/plan.md holds the mitigation marker
\* or DECISIONS.md the waiver marker, no run for any phase exits 2, whatever
\* findings the artifacts hold.
C29_MarkerNeverExitsTwo ==
    (Done /\ (HasMitigationHeader(fs) \/ HasWaiverRecord(fs))) =>
        /\ gate_rc # 2
        /\ exit_status # 2

\* the evidence: the files under reports/, plans/plan.md and DECISIONS.md
EvidenceOf(f) == [p \in DOMAIN f \cap (Reports \cup {PlanMd, DecisionsMd}) |-> f[p]]

\* C30: the gate is read-only: no step of lint_phase.sh creates, modifies or
\* deletes a file under reports/, plans/plan.md or DECISIONS.md; the evidence
\* changes only in the step that runs plugins.runtime.sh.
C30_GateReadOnly ==
    [][pc # "idle" => EvidenceOf(fs') = EvidenceOf(fs)]_vars

\* C30's case: the invoker wrote the plan scan, the gate then found what it
\* required and scanned it
C30_Witness ==
    /\ ChecksDone
    /\ PHASE = "plan"
    /\ producers = <<"run_cli_plan">>
    /\ IsFile(fs, PlanScan)
    /\ gate_rc = 0
    /\ log = <<"plugin artifacts validated">>
====
